---- MODULE Spec2Model ----
(***************************************************************************)
(* dentech-floss/orm: the configuration resolver, the connection-string    *)
(* builder, the handle constructors and the migration runner.              *)
(*                                                                         *)
(* The migration runner delegates to github.com/go-gormigrate/gormigrate   *)
(* v2.1.1 (pinned in go.mod).  The wrapper methods are translated from the *)
(* repository; the steps of gormigrate's Migrate and RollbackLast, which   *)
(* the wrappers call, are modelled after that version of the library and   *)
(* carry the prefix G.                                                     *)
(***************************************************************************)
EXTENDS Integers, Sequences, FiniteSets, TLC

VARIABLES
    DefaultOptions, \* gormigrate.DefaultOptions: the Options object the package-level pointer refers to
    insts,          \* the Migration objects made by NewMigration, by caller variable
    db,             \* the committed state of the database behind the handle
    run,            \* the migration call in flight, or the last one returned
    defaults,       \* the package variables defaultDbPort, defaultMaxIdleConns, ...
    env,            \* the process environment: DB_SOCKET_DIR
    cfg,            \* the caller's OrmConfig object, as the last constructor call left it
    ctor,           \* the constructor call in flight, or the last one finished
    handle,         \* the *Orm the last constructor call returned
    writes,         \* how many times the caller has written through a field of cfg
    mem,            \* the rows of the process's shared-cache in-memory SQLite database
    orms,           \* the SQLite handles the caller keeps, by caller variable
    obs             \* which handle inserted which row, and what a query since returned

migVars == <<DefaultOptions, insts, db, run>>
cfgVars == <<defaults, env, cfg, ctor, handle, writes>>
sqlVars == <<mem, orms, obs>>
vars == <<DefaultOptions, insts, db, run, defaults, env, cfg, ctor, handle, writes,
          mem, orms, obs>>

(***************************************************************************)
(* Bounds                                                                  *)
(***************************************************************************)
MaxID == 2      \* migration identifiers are 1..MaxID (their order stands for the string order)
MaxLen == 2     \* longest migration list a caller passes

IDs == 1..MaxID

\* A migration step as the caller writes it: Migrate is always given,
\* Rollback "can be nil" (Rollback = FALSE).
Steps == [ID : IDs, Rollback : BOOLEAN]

RECURSIVE SeqsUpTo(_, _)
SeqsUpTo(S, n) ==
    IF n = 0 THEN {<<>>}
    ELSE LET shorter == SeqsUpTo(S, n - 1)
         IN  shorter \cup {Append(s, x) : s \in {t \in shorter : Len(t) = n - 1}, x \in S}

MigrationLists == SeqsUpTo(Steps, MaxLen)

\* Migrate never reads a step's Rollback func: the lists handed to the RunMigrations
\* entry points are those whose steps all carry one.
ForwardLists == {ms \in MigrationLists : \A k \in 1..Len(ms) : ms[k].Rollback}

Range(s) == {s[k] : k \in 1..Len(s)}
IDsOf(ms) == [k \in 1..Len(ms) |-> ms[k].ID]
Reverse(s) == [k \in 1..Len(s) |-> s[Len(s) + 1 - k]]
RemoveID(s, id) == SelectSeq(s, LAMBDA x : x # id)

(***************************************************************************)
(* Errors                                                                  *)
(***************************************************************************)
Err(e, id) == [e |-> e, id |-> id]
Nil == Err("nil", 0)
ErrNoMigrationDefined == Err("ErrNoMigrationDefined", 0)
ErrDuplicatedID == Err("ErrDuplicatedID", 0)
ErrNoRunMigration == Err("ErrNoRunMigration", 0)
ErrRollbackImpossible == Err("ErrRollbackImpossible", 0)
MigrateFailed(id) == Err("Migrate", id)      \* the error step id's Migrate func returned
RollbackFailed(id) == Err("Rollback", id)    \* the error step id's Rollback func returned

(***************************************************************************)
(* Options objects and pointers to them                                    *)
(***************************************************************************)
Options(useTx) == [UseTransaction |-> useTx]

NilOptions == [kind |-> "nil"]
DefaultPtr == [kind |-> "default"]                  \* gormigrate.DefaultOptions
InstPtr(m) == [kind |-> "inst", m |-> m]            \* the Options object NewMigration allocated for m
OwnPtr(useTx) == [kind |-> "own", UseTransaction |-> useTx]  \* an Options object of the caller's

InstNames == {"m1"}
NoInst == [made |-> FALSE, options |-> Options(FALSE), with |-> <<>>]

Deref(p) ==
    CASE p.kind = "default" -> DefaultOptions
      [] p.kind = "inst" -> insts[p.m].options
      [] p.kind = "own" -> Options(p.UseTransaction)

(***************************************************************************)
(* The database: the rows of gormigrate's migrations table and the schema  *)
(* effects of the migrations' actions.  The table has an id column only;   *)
(* applied lists the ids in the order their rows were inserted so that     *)
(* "most recently applied" can be stated; the library reads Applied alone. *)
(***************************************************************************)
FreshDb == [applied |-> <<>>, effects |-> {}]
Applied(d) == Range(d.applied)

NoTx == [applied |-> <<>>, effects |-> {}]

\* No call in flight.  lastOk, lastInput and lastI remember, for the next call, a call
\* that has just returned without an error: "run" one of the RunMigrations entry
\* points, "rollback" RollbackLastMigration (lastI: the position it rolled back).
Idle ==
    [op |-> "none", pc |-> "idle", input |-> <<>>, migrations |-> <<>>,
     options |-> DefaultPtr, requestedTx |-> FALSE, inTx |-> FALSE, usedTx |-> FALSE,
     tx |-> NoTx, start |-> FreshDb, i |-> 0, fwd |-> <<>>, rev |-> <<>>, err |-> Nil,
     result |-> Nil, repeat |-> FALSE, prevRb |-> 0,
     lastOk |-> "none", lastInput |-> <<>>, lastI |-> 0]

InitMig ==
    /\ DefaultOptions = Options(FALSE)
    /\ insts = [m \in InstNames |-> NoInst]
    /\ db = FreshDb
    /\ run = Idle

NoCall == run.pc = "idle"

RunOps == {"Migration.RunMigrations", "Orm.RunMigrations",
           "Orm.RunMigrationsInSingleTransaction", "Orm.RunMigrationsByConfig"}

\* The record of a call that has just entered gormigrate.New(db, options, migrations).
Call(op, input, migrations, options, requestedTx, pc) ==
    [Idle EXCEPT !.op = op, !.pc = pc, !.input = input, !.migrations = migrations,
                 !.options = options, !.requestedTx = requestedTx, !.start = db,
                 !.repeat = /\ run.lastOk = "run"
                            /\ op \in RunOps
                            /\ run.lastInput = input,
                 !.prevRb = IF /\ run.lastOk = "rollback"
                               /\ op = "Migration.RollbackLastMigration"
                               /\ run.lastInput = input
                            THEN run.lastI ELSE 0]

(***************************************************************************)
(* pkg/migration                                                           *)
(***************************************************************************)
OptionFuncs == {"WithUseTransaction"}
OptionLists == SeqsUpTo(OptionFuncs, 1)

WithUseTransactionOff(o) == o

WithUseTransaction(o) == [o EXCEPT !.UseTransaction = TRUE]

ApplyOption(f, o) == IF f = "WithUseTransaction" THEN WithUseTransaction(o) ELSE o

RECURSIVE ApplyOptions(_, _)
ApplyOptions(fs, o) ==
    IF fs = <<>> THEN o ELSE ApplyOptions(Tail(fs), ApplyOption(Head(fs), o))

\* goptions := &Options{}; *goptions = *DefaultOptions; for f in options: goptions = f(goptions)
NewMigration(m, fs) ==
    /\ NoCall
    /\ insts' = [insts EXCEPT ![m] =
                    [made |-> TRUE, options |-> ApplyOptions(fs, DefaultOptions), with |-> fs]]
    /\ UNCHANGED cfgVars
    /\ UNCHANGED sqlVars
    /\ UNCHANGED <<DefaultOptions, db, run>>

ReturnErrSwallowed(err) == Nil

\* if err := gm.Migrate(); err != nil { return err }; return nil
ReturnErr(err) == IF err # Nil THEN err ELSE Nil

CallsRollbackLast == "RollbackLast"

\* gm := gormigrate.New(m.db.DB, m.options, migrations); gm.Migrate()
RunMigrationsCalls == "Migrate"

MigrationRunMigrations(m, ms) ==
    /\ NoCall
    /\ insts[m].made
    /\ run' = Call("Migration.RunMigrations", ms, ms, InstPtr(m),
                   "WithUseTransaction" \in Range(insts[m].with), RunMigrationsCalls)
    /\ UNCHANGED cfgVars
    /\ UNCHANGED sqlVars
    /\ UNCHANGED <<DefaultOptions, insts, db>>

CallsMigrate == "Migrate"

\* gm := gormigrate.New(m.db.DB, m.options, migrations); gm.RollbackLast()
RollbackLastMigrationCalls == "RollbackLast"

MigrationRollbackLastMigration(m, ms) ==
    /\ NoCall
    /\ insts[m].made
    /\ run' = Call("Migration.RollbackLastMigration", ms, ms, InstPtr(m),
                   "WithUseTransaction" \in Range(insts[m].with),
                   RollbackLastMigrationCalls)
    /\ UNCHANGED cfgVars
    /\ UNCHANGED sqlVars
    /\ UNCHANGED <<DefaultOptions, insts, db>>

(***************************************************************************)
(* pkg/orm                                                                 *)
(***************************************************************************)
OptionArgs == {NilOptions, OwnPtr(TRUE), OwnPtr(FALSE)}

\* if options == nil { options = gormigrate.DefaultOptions }
OrmRunMigrations(o, ms) ==
    /\ NoCall
    /\ run' = Call("Orm.RunMigrations", ms, ms,
                   IF o = NilOptions THEN DefaultPtr ELSE o, FALSE, "Migrate")
    /\ UNCHANGED cfgVars
    /\ UNCHANGED sqlVars
    /\ UNCHANGED <<DefaultOptions, insts, db>>

\* options := gormigrate.DefaultOptions; options.UseTransaction = true;
\* return db.RunMigrations(options, migrations)
OrmRunMigrationsInSingleTransaction(ms) ==
    /\ NoCall
    /\ DefaultOptions' = [DefaultOptions EXCEPT !.UseTransaction = TRUE]
    /\ run' = Call("Orm.RunMigrationsInSingleTransaction", ms, ms, DefaultPtr, TRUE, "Migrate")
    /\ UNCHANGED cfgVars
    /\ UNCHANGED sqlVars
    /\ UNCHANGED <<insts, db>>

ConvertMigrationsReversed(ms) == Reverse(ms)

\* for _, m := range migrations { ms = append(ms, &gormigrate.Migration{ID, Migrate, Rollback}) }
ConvertMigrations(ms) ==
    [k \in 1..Len(ms) |-> [ID |-> ms[k].ID, Rollback |-> ms[k].Rollback]]

\* The handles a caller may hold differ, for the runner, in config.MigrateUseTransaction.
HandleConfigs == [MigrateUseTransaction : BOOLEAN]

\* options := gormigrate.DefaultOptions; options.UseTransaction = db.config.MigrateUseTransaction
OrmRunMigrationsByConfig(config, ms) ==
    /\ NoCall
    /\ DefaultOptions' = [DefaultOptions EXCEPT !.UseTransaction = config.MigrateUseTransaction]
    /\ run' = Call("Orm.RunMigrationsByConfig", ms, ConvertMigrations(ms), DefaultPtr,
                   config.MigrateUseTransaction, "Migrate")
    /\ UNCHANGED cfgVars
    /\ UNCHANGED sqlVars
    /\ UNCHANGED <<insts, db>>

(***************************************************************************)
(* gormigrate v2.1.1                                                       *)
(***************************************************************************)
\* g.tx is g.db.Begin() under UseTransaction and g.db itself otherwise
Cur == IF run.inTx THEN run.tx ELSE db

Write(r, d) ==
    IF run.inTx
    THEN /\ run' = [r EXCEPT !.tx = d]
         /\ db' = db
    ELSE /\ run' = r
         /\ db' = d

GBegin(r) ==
    LET useTx == Deref(run.options).UseTransaction
    IN  [r EXCEPT !.inTx = useTx, !.usedTx = useTx, !.tx = IF useTx THEN db ELSE NoTx]

HasDuplicatedID(ms) == \E j, k \in 1..Len(ms) : j < k /\ ms[j].ID = ms[k].ID

\* SELECT count(*) FROM migrations WHERE id = ?
migrationRan(d, id) == id \in Applied(d)

\* Migrate: hasMigrations, checkDuplicatedID, begin
GMigrate ==
    /\ run.pc = "Migrate"
    /\ run' = IF Len(run.migrations) = 0
              THEN [run EXCEPT !.err = ErrNoMigrationDefined, !.pc = "return"]
              ELSE IF HasDuplicatedID(run.migrations)
              THEN [run EXCEPT !.err = ErrDuplicatedID, !.pc = "return"]
              ELSE GBegin([run EXCEPT !.pc = "loop", !.i = 1])
    /\ UNCHANGED cfgVars
    /\ UNCHANGED sqlVars
    /\ UNCHANGED <<DefaultOptions, insts, db>>

\* runMigration: a migration that ran is skipped, another one has its Migrate func called
GRunMigration ==
    /\ run.pc = "loop"
    /\ run.i <= Len(run.migrations)
    /\ run' = IF migrationRan(Cur, run.migrations[run.i].ID)
              THEN [run EXCEPT !.i = run.i + 1]
              ELSE [run EXCEPT !.pc = "forward"]
    /\ UNCHANGED cfgVars
    /\ UNCHANGED sqlVars
    /\ UNCHANGED <<DefaultOptions, insts, db>>

\* migration.Migrate(g.tx): the caller's forward action, which succeeds or fails
GForward(ok) ==
    /\ run.pc = "forward"
    /\ LET id == run.migrations[run.i].ID
           r == [run EXCEPT !.fwd = Append(run.fwd, id)]
       IN  IF ok
           THEN Write([r EXCEPT !.pc = "insert"],
                      [Cur EXCEPT !.effects = Cur.effects \cup {id}])
           ELSE /\ run' = [r EXCEPT !.err = MigrateFailed(id), !.pc = "deferred"]
                /\ db' = db
    /\ UNCHANGED cfgVars
    /\ UNCHANGED sqlVars
    /\ UNCHANGED <<DefaultOptions, insts>>

\* insertMigration(migration.ID)
GInsertMigration ==
    /\ run.pc = "insert"
    /\ LET id == run.migrations[run.i].ID
       IN  Write([run EXCEPT !.pc = "loop", !.i = run.i + 1],
                 [Cur EXCEPT !.applied = Append(Cur.applied, id)])
    /\ UNCHANGED cfgVars
    /\ UNCHANGED sqlVars
    /\ UNCHANGED <<DefaultOptions, insts>>

\* RollbackLast: the empty list, begin, getLastRunMigration, rollbackMigration's nil check
\* for i := len(g.migrations) - 1; i >= 0; i-- { if migrationRan { return migration } }
getLastRunMigration(d, ms) ==
    LET ran == {k \in 1..Len(ms) : migrationRan(d, ms[k].ID)}
    IN  IF ran = {} THEN 0 ELSE CHOOSE k \in ran : \A j \in ran : j <= k

GRollbackLast ==
    /\ run.pc = "RollbackLast"
    /\ run' = IF Len(run.migrations) = 0
              THEN [run EXCEPT !.err = ErrNoMigrationDefined, !.pc = "return"]
              ELSE LET b == GBegin(run)
                       last == getLastRunMigration(db, run.migrations)
                   IN  IF last = 0
                       THEN [b EXCEPT !.err = ErrNoRunMigration, !.pc = "deferred"]
                       ELSE IF ~run.migrations[last].Rollback
                       THEN [b EXCEPT !.i = last, !.err = ErrRollbackImpossible,
                                      !.pc = "deferred"]
                       ELSE [b EXCEPT !.i = last, !.pc = "reverse"]
    /\ UNCHANGED cfgVars
    /\ UNCHANGED sqlVars
    /\ UNCHANGED <<DefaultOptions, insts, db>>

\* m.Rollback(g.tx): the caller's reverse action, which succeeds or fails
GReverse(ok) ==
    /\ run.pc = "reverse"
    /\ LET id == run.migrations[run.i].ID
           r == [run EXCEPT !.rev = Append(run.rev, id)]
       IN  IF ok
           THEN Write([r EXCEPT !.pc = "delete"],
                      [Cur EXCEPT !.effects = Cur.effects \ {id}])
           ELSE /\ run' = [r EXCEPT !.err = RollbackFailed(id), !.pc = "deferred"]
                /\ db' = db
    /\ UNCHANGED cfgVars
    /\ UNCHANGED sqlVars
    /\ UNCHANGED <<DefaultOptions, insts>>

\* DELETE FROM migrations WHERE id = m.ID
GDeleteMigration ==
    /\ run.pc = "delete"
    /\ LET id == run.migrations[run.i].ID
       IN  Write([run EXCEPT !.pc = "commit"],
                 [Cur EXCEPT !.applied = RemoveID(Cur.applied, id)])
    /\ UNCHANGED cfgVars
    /\ UNCHANGED sqlVars
    /\ UNCHANGED <<DefaultOptions, insts>>

\* the loop of migrate is over: return g.commit()
GLoopDone ==
    /\ run.pc = "loop"
    /\ run.i > Len(run.migrations)
    /\ run' = [run EXCEPT !.pc = "commit"]
    /\ UNCHANGED cfgVars
    /\ UNCHANGED sqlVars
    /\ UNCHANGED <<DefaultOptions, insts, db>>

\* commit: g.tx.Commit() under UseTransaction
GCommit ==
    /\ run.pc = "commit"
    /\ db' = IF run.inTx THEN run.tx ELSE db
    /\ run' = [run EXCEPT !.pc = "return", !.inTx = FALSE, !.tx = NoTx]
    /\ UNCHANGED cfgVars
    /\ UNCHANGED sqlVars
    /\ UNCHANGED <<DefaultOptions, insts>>

\* defer g.rollback(): g.tx.Rollback() under UseTransaction
GDeferredRollback ==
    /\ run.pc = "deferred"
    /\ run' = [run EXCEPT !.pc = "return", !.inTx = FALSE, !.tx = NoTx]
    /\ UNCHANGED cfgVars
    /\ UNCHANGED sqlVars
    /\ UNCHANGED <<DefaultOptions, insts, db>>

\* the wrapper hands gormigrate's error to its caller
Return ==
    /\ run.pc = "return"
    /\ run' = [run EXCEPT !.pc = "returned", !.result = ReturnErr(run.err)]
    /\ UNCHANGED cfgVars
    /\ UNCHANGED sqlVars
    /\ UNCHANGED <<DefaultOptions, insts, db>>

\* The caller has seen the result and goes on to its next call.
CallerProceeds ==
    /\ run.pc = "returned"
    /\ run' = IF run.result # Nil THEN Idle
              ELSE IF run.op \in RunOps
              THEN [Idle EXCEPT !.lastOk = "run", !.lastInput = run.input]
              ELSE [Idle EXCEPT !.lastOk = "rollback", !.lastInput = run.input,
                                !.lastI = run.i]
    /\ UNCHANGED cfgVars
    /\ UNCHANGED sqlVars
    /\ UNCHANGED <<DefaultOptions, insts, db>>

(***************************************************************************)
(* pkg/orm: OrmConfig, setDefaults, dsn, the constructors                  *)
(***************************************************************************)
MaxWrites == 1  \* how many writes through a resolved field the caller makes

defaultDbPort == 3306
defaultMaxIdleConns == 100
defaultMaxOpenConns == 100
defaultConnMaxLifetimeMins == 15

OptionalFields == {"DbPort", "MaxIdleConns", "MaxOpenConns", "ConnMaxLifetimeMins"}

\* The values the package variables are declared with.
Declared ==
    [DbPort |-> defaultDbPort, MaxIdleConns |-> defaultMaxIdleConns,
     MaxOpenConns |-> defaultMaxOpenConns,
     ConnMaxLifetimeMins |-> defaultConnMaxLifetimeMins]

\* A *int field: nil, a pointer to an int of the caller's, or a pointer to one of the
\* package variables (&defaultDbPort, ...).
NilP == [kind |-> "nil"]
OwnP(v) == [kind |-> "own", val |-> v]
DefaultP(f) == [kind |-> "default", var |-> f]

\* The ints the caller puts into a field, or writes through it.
CallerVals ==
    [DbPort |-> {0, 3307}, MaxIdleConns |-> {0, 10}, MaxOpenConns |-> {0, 20},
     ConnMaxLifetimeMins |-> {0, 5}]

CallerPtrs(f) == {NilP} \cup {OwnP(v) : v \in CallerVals[f]}

\* The OrmConfig literals a caller passes.  The Logger field, which setDefaults fills
\* from its parameter, and MigrateUseTransaction, which only the runner reads, are
\* left out.
Databases ==
    {[DbName |-> "clinic", DbUser |-> "u", DbPassword |-> "p", DbHost |-> "h"],
     [DbName |-> "patients", DbUser |-> "some_user", DbPassword |-> "some_pwd",
      DbHost |-> "some_host"]}

ConfigInputs ==
    {c \in [OnGCP : BOOLEAN, DbName : {d.DbName : d \in Databases},
            DbUser : {d.DbUser : d \in Databases},
            DbPassword : {d.DbPassword : d \in Databases},
            DbHost : {d.DbHost : d \in Databases},
            DbPort : CallerPtrs("DbPort"),
            MaxIdleConns : CallerPtrs("MaxIdleConns"),
            MaxOpenConns : CallerPtrs("MaxOpenConns"),
            ConnMaxLifetimeMins : CallerPtrs("ConnMaxLifetimeMins")] :
        \E d \in Databases :
            /\ c.DbName = d.DbName /\ c.DbUser = d.DbUser
            /\ c.DbPassword = d.DbPassword /\ c.DbHost = d.DbHost}

NoConfig ==
    [OnGCP |-> FALSE, DbName |-> "", DbUser |-> "", DbPassword |-> "", DbHost |-> "",
     DbPort |-> NilP, MaxIdleConns |-> NilP, MaxOpenConns |-> NilP,
     ConnMaxLifetimeMins |-> NilP]

\* DB_SOCKET_DIR: unset, set to a directory, set to the empty string.
Envs == {[isSet |-> FALSE, val |-> ""], [isSet |-> TRUE, val |-> "sockets"],
         [isSet |-> TRUE, val |-> ""]}

\* *p
Value(p) == IF p.kind = "default" THEN defaults[p.var] ELSE p.val

Values(c) == [f \in OptionalFields |-> Value(c[f])]

\* if c.DbPort == nil { c.DbPort = &defaultDbPort } ...
setDefaults(c) ==
    [c EXCEPT !.DbPort = IF @ = NilP THEN DefaultP("DbPort") ELSE @,
              !.MaxIdleConns = IF @ = NilP THEN DefaultP("MaxIdleConns") ELSE @,
              !.MaxOpenConns = IF @ = NilP THEN DefaultP("MaxOpenConns") ELSE @,
              !.ConnMaxLifetimeMins =
                  IF @ = NilP THEN DefaultP("ConnMaxLifetimeMins") ELSE @]

Digits == <<"0", "1", "2", "3", "4", "5", "6", "7", "8", "9">>

RECURSIVE ItoaNat(_)
ItoaNat(n) == IF n < 10 THEN Digits[n + 1] ELSE ItoaNat(n \div 10) \o Digits[(n % 10) + 1]

\* strconv.Itoa
Itoa(n) == IF n < 0 THEN "-" \o ItoaNat(0 - n) ELSE ItoaNat(n)

\* "%s:%s@unix(/%s/%s)/%s?charset=utf8mb4&parseTime=true"
unixDsn(c) ==
    LET socketDir == IF env.isSet THEN env.val ELSE "cloudsql"
    IN  c.DbUser \o ":" \o c.DbPassword \o "@unix(/" \o socketDir \o "/" \o c.DbHost
            \o ")/" \o c.DbName \o "?charset=utf8mb4&parseTime=true"

tcpDsnWithCharset(c) ==
    c.DbUser \o ":" \o c.DbPassword \o "@tcp(" \o c.DbHost \o ":"
        \o Itoa(Value(c.DbPort)) \o ")/" \o c.DbName \o "?charset=utf8mb4&parseTime=true"

\* "%s:%s@tcp(%s:%s)/%s?parseTime=true"
tcpDsn(c) ==
    LET port == Itoa(Value(c.DbPort))
    IN  c.DbUser \o ":" \o c.DbPassword \o "@tcp(" \o c.DbHost \o ":" \o port
            \o ")/" \o c.DbName \o "?parseTime=true"

\* if config.OnGCP { return unixDsn(config) }; return tcpDsn(config)
dsn(c) == IF c.OnGCP THEN unixDsn(c) ELSE tcpDsn(c)

SQLiteDsn == "file::memory:?cache=shared"

\* What the *sql.DB has been told: the arguments of SetMaxIdleConns, SetMaxOpenConns
\* and SetConnMaxLifetime (in minutes), and which of them were called.
NoPool == [set |-> {}, MaxIdleConns |-> 0, MaxOpenConns |-> 0, ConnMaxLifetimeMins |-> 0]

NoHandle == [returned |-> FALSE, engine |-> "", plugin |-> FALSE, pool |-> NoPool]

\* memConns: the open connections of the call's *sql.DB to the in-memory database.
NoCtor ==
    [pc |-> "idle", engine |-> "", input |-> NoConfig, resolved |-> Declared,
     dsn |-> "", trace |-> <<>>, plugin |-> FALSE, pool |-> NoPool, memConns |-> 0]

(***************************************************************************)
(* The in-memory SQLite database.  Every connection opened with            *)
(* "file::memory:?cache=shared" in the process attaches to the same        *)
(* database, which SQLite deletes when its last connection closes          *)
(* (mattn/go-sqlite3 v1.14.17 under gorm.io/driver/sqlite v1.5.5).  A      *)
(* handle's *sql.DB opens a connection when it needs one and has none      *)
(* idle, keeps it idle afterwards if SetMaxIdleConns was given more than   *)
(* zero and closes it otherwise, and closes a connection older than a      *)
(* positive SetConnMaxLifetime (database/sql).                             *)
(***************************************************************************)
MaxRows == 2    \* the rows a caller inserts are 1..MaxRows

Rows == 1..MaxRows

OrmNames == {"a", "b"}

\* idle: the connections the handle's pool holds open (the calls of the model are
\* sequential, so this is at most one).
NoOrm == [held |-> FALSE, maxIdle |-> 0, lifetimeMins |-> 0, idle |-> 0]

NoObs ==
    [inserted |-> [r \in Rows |-> "none"], read |-> FALSE, reader |-> "none",
     result |-> {}]

IdleHandles(S) == Cardinality({g \in S : orms[g].idle > 0})

\* The database with rows m, once the connections left open number n.
Surviving(m, n) == IF n = 0 THEN {} ELSE m

\* putConn: the connection goes back to the pool, which keeps it or closes it
KeptIdle(maxIdle) == IF maxIdle > 0 THEN 1 ELSE 0

CtorFree == ctor.pc = "idle"

Enter(engine, c, text) ==
    [NoCtor EXCEPT !.pc = "Open", !.engine = engine, !.input = c,
                   !.resolved = Values(setDefaults(c)), !.dsn = text]

\* config.setDefaults(defaultMySQLLogger); mysql.Open(dsn(config))
NewMySqlOrm(c) ==
    /\ CtorFree
    /\ cfg' = setDefaults(c)
    /\ ctor' = Enter("mysql", c, dsn(setDefaults(c)))
    /\ UNCHANGED <<defaults, env, handle, writes>>
    /\ UNCHANGED migVars
    /\ UNCHANGED sqlVars

\* config.setDefaults(defaultSQLiteLogger); sqlite.Open("file::memory:?cache=shared")
NewSQLiteOrm(c) ==
    /\ CtorFree
    /\ cfg' = setDefaults(c)
    /\ ctor' = Enter("sqlite", c, SQLiteDsn)
    /\ UNCHANGED <<defaults, env, handle, writes>>
    /\ UNCHANGED migVars
    /\ UNCHANGED sqlVars

\* db, err := gorm.Open(...); if err != nil { panic(err) }
\* gorm.Open pings the database, which leaves one connection idle in the new pool.
GormOpen(ok) ==
    /\ ctor.pc = "Open"
    /\ ctor' = IF ok THEN [ctor EXCEPT !.pc = "Use", !.trace = Append(@, "open"),
                                        !.memConns = IF ctor.engine = "sqlite" THEN 1 ELSE 0]
                     ELSE [ctor EXCEPT !.pc = "panicked"]
    /\ UNCHANGED <<defaults, env, cfg, handle, writes>>
    /\ UNCHANGED migVars
    /\ UNCHANGED sqlVars

AfterUseIgnoringError(ok) == "DB"

\* if err := db.Use(otelgorm.NewPlugin()); err != nil { panic(err) }
AfterUse(ok) == IF ok THEN "DB" ELSE "panicked"

UsePlugin(ok) ==
    /\ ctor.pc = "Use"
    /\ ctor' = [ctor EXCEPT !.pc = AfterUse(ok), !.plugin = ok,
                            !.trace = IF ok THEN Append(@, "plugin") ELSE @]
    /\ UNCHANGED <<defaults, env, cfg, handle, writes>>
    /\ UNCHANGED migVars
    /\ UNCHANGED sqlVars

\* sqlDB, err := db.DB(); if err != nil { panic(err) }
GetSqlDB(ok) ==
    /\ ctor.pc = "DB"
    /\ ctor' = IF ok THEN [ctor EXCEPT !.pc = "SetMaxIdleConns", !.trace = Append(@, "pool")]
                     ELSE [ctor EXCEPT !.pc = "panicked"]
    /\ UNCHANGED <<defaults, env, cfg, handle, writes>>
    /\ UNCHANGED migVars
    /\ UNCHANGED sqlVars

\* sqlDB.SetMaxIdleConns(*config.MaxIdleConns): with n <= 0 the idle connections close
SetMaxIdleConns ==
    /\ ctor.pc = "SetMaxIdleConns"
    /\ LET n == Value(cfg.MaxIdleConns)
           left == IF n > 0 THEN ctor.memConns ELSE 0
       IN  /\ ctor' = [ctor EXCEPT !.pc = "SetMaxOpenConns",
                                   !.pool.MaxIdleConns = n,
                                   !.pool.set = @ \cup {"MaxIdleConns"},
                                   !.trace = Append(@, "SetMaxIdleConns"),
                                   !.memConns = left]
           /\ mem' = IF ctor.engine = "sqlite"
                     THEN Surviving(mem, left + IdleHandles(OrmNames))
                     ELSE mem
    /\ UNCHANGED <<defaults, env, cfg, handle, writes>>
    /\ UNCHANGED migVars
    /\ UNCHANGED <<orms, obs>>

\* sqlDB.SetMaxOpenConns(*config.MaxOpenConns)
SetMaxOpenConns ==
    /\ ctor.pc = "SetMaxOpenConns"
    /\ ctor' = [ctor EXCEPT !.pc = "SetConnMaxLifetime",
                            !.pool.MaxOpenConns = Value(cfg.MaxOpenConns),
                            !.pool.set = @ \cup {"MaxOpenConns"},
                            !.trace = Append(@, "SetMaxOpenConns")]
    /\ UNCHANGED <<defaults, env, cfg, handle, writes>>
    /\ UNCHANGED migVars
    /\ UNCHANGED sqlVars

\* sqlDB.SetConnMaxLifetime(time.Duration(*config.ConnMaxLifetimeMins) * time.Minute)
SetConnMaxLifetime ==
    /\ ctor.pc = "SetConnMaxLifetime"
    /\ ctor' = [ctor EXCEPT !.pc = "Return",
                            !.pool.ConnMaxLifetimeMins = Value(cfg.ConnMaxLifetimeMins),
                            !.pool.set = @ \cup {"ConnMaxLifetimeMins"},
                            !.trace = Append(@, "SetConnMaxLifetime")]
    /\ UNCHANGED <<defaults, env, cfg, handle, writes>>
    /\ UNCHANGED migVars
    /\ UNCHANGED sqlVars

\* return &Orm{db, config}
ReturnOrm ==
    /\ ctor.pc = "Return"
    /\ ctor' = [ctor EXCEPT !.pc = "returned", !.trace = Append(@, "return")]
    /\ handle' = [returned |-> TRUE, engine |-> ctor.engine, plugin |-> ctor.plugin,
                  pool |-> ctor.pool]
    /\ UNCHANGED <<defaults, env, cfg, writes>>
    /\ UNCHANGED migVars
    /\ UNCHANGED sqlVars

\* The caller's *config.F = v on the configuration a constructor has resolved.
CallerWrite(f, v) ==
    /\ ctor.pc = "returned"
    /\ writes < MaxWrites
    /\ writes' = writes + 1
    /\ IF cfg[f].kind = "default"
       THEN /\ defaults' = [defaults EXCEPT ![f] = v]
            /\ cfg' = cfg
       ELSE /\ cfg' = [cfg EXCEPT ![f] = OwnP(v)]
            /\ defaults' = defaults
    /\ UNCHANGED <<env, ctor, handle>>
    /\ UNCHANGED migVars
    /\ UNCHANGED sqlVars

\* The caller is done with the handle and the configuration of its last constructor
\* call; what it wrote into the package variables stays.
CallerDone ==
    /\ ctor.pc = "returned"
    /\ ctor' = NoCtor
    /\ cfg' = NoConfig
    /\ handle' = NoHandle
    /\ UNCHANGED <<defaults, env, writes>>
    /\ UNCHANGED migVars
    /\ UNCHANGED sqlVars

\* The caller keeps the handle NewSQLiteOrm returned in its variable h; the handle's
\* pool is as the constructor left it.
CallerKeeps(h) ==
    /\ ctor.pc = "returned"
    /\ handle.returned
    /\ handle.engine = "sqlite"
    /\ ~orms[h].held
    /\ orms' = [orms EXCEPT ![h] =
                   [held |-> TRUE, maxIdle |-> handle.pool.MaxIdleConns,
                    lifetimeMins |-> handle.pool.ConnMaxLifetimeMins,
                    idle |-> ctor.memConns]]
    /\ ctor' = NoCtor
    /\ cfg' = NoConfig
    /\ handle' = NoHandle
    /\ UNCHANGED <<defaults, env, writes, mem, obs>>
    /\ UNCHANGED migVars

\* A statement through the handle h that inserts the row r: the pool hands out its
\* idle connection or opens one, the row is written, the connection goes back.
Insert(h, r) ==
    /\ CtorFree
    /\ orms[h].held
    /\ obs.inserted[r] = "none"
    /\ LET kept == KeptIdle(orms[h].maxIdle)
       IN  /\ mem' = Surviving(mem \cup {r}, kept + IdleHandles(OrmNames \ {h}))
           /\ orms' = [orms EXCEPT ![h].idle = kept]
    /\ obs' = [NoObs EXCEPT !.inserted = [obs.inserted EXCEPT ![r] = h]]
    /\ UNCHANGED cfgVars
    /\ UNCHANGED migVars

\* A query through the handle h for all rows.
Select(h) ==
    /\ CtorFree
    /\ orms[h].held
    /\ LET kept == KeptIdle(orms[h].maxIdle)
       IN  /\ mem' = Surviving(mem, kept + IdleHandles(OrmNames \ {h}))
           /\ orms' = [orms EXCEPT ![h].idle = kept]
    /\ obs' = [obs EXCEPT !.read = TRUE, !.reader = h, !.result = mem]
    /\ UNCHANGED cfgVars
    /\ UNCHANGED migVars

\* The idle connection of the handle h has reached the age given to
\* SetConnMaxLifetime and the pool closes it.
ConnectionExpires(h) ==
    /\ CtorFree
    /\ orms[h].held
    /\ orms[h].idle > 0
    /\ orms[h].lifetimeMins > 0
    /\ mem' = Surviving(mem, IdleHandles(OrmNames \ {h}))
    /\ orms' = [orms EXCEPT ![h].idle = 0]
    /\ UNCHANGED obs
    /\ UNCHANGED cfgVars
    /\ UNCHANGED migVars

InitCfg ==
    /\ defaults = Declared
    /\ cfg = NoConfig
    /\ ctor = NoCtor
    /\ handle = NoHandle
    /\ writes = 0
    /\ mem = {}
    /\ orms = [h \in OrmNames |-> NoOrm]
    /\ obs = NoObs

Init ==
    /\ InitMig
    /\ InitCfg
    /\ env = [isSet |-> FALSE, val |-> ""]

Next ==
    \/ \E m \in InstNames, fs \in OptionLists : NewMigration(m, fs)
    \/ \E m \in InstNames, ms \in ForwardLists : MigrationRunMigrations(m, ms)
    \/ \E m \in InstNames, ms \in MigrationLists : MigrationRollbackLastMigration(m, ms)
    \/ \E o \in OptionArgs, ms \in ForwardLists : OrmRunMigrations(o, ms)
    \/ \E ms \in ForwardLists : OrmRunMigrationsInSingleTransaction(ms)
    \/ \E c \in HandleConfigs, ms \in ForwardLists : OrmRunMigrationsByConfig(c, ms)
    \/ GMigrate
    \/ GRunMigration
    \/ \E ok \in BOOLEAN : GForward(ok)
    \/ GInsertMigration
    \/ GLoopDone
    \/ GRollbackLast
    \/ \E ok \in BOOLEAN : GReverse(ok)
    \/ GDeleteMigration
    \/ GCommit
    \/ GDeferredRollback
    \/ Return
    \/ CallerProceeds

Spec == Init /\ [][Next]_vars

\* The constructors and the caller's use of its configuration, in any environment.
InitConstructors ==
    /\ InitMig
    /\ InitCfg
    /\ env \in Envs

NextConstructors ==
    \/ \E c \in ConfigInputs : NewMySqlOrm(c)
    \/ \E c \in ConfigInputs : NewSQLiteOrm(c)
    \/ \E ok \in BOOLEAN : GormOpen(ok)
    \/ \E ok \in BOOLEAN : UsePlugin(ok)
    \/ \E ok \in BOOLEAN : GetSqlDB(ok)
    \/ SetMaxIdleConns
    \/ SetMaxOpenConns
    \/ SetConnMaxLifetime
    \/ ReturnOrm
    \/ \E f \in OptionalFields : \E v \in CallerVals[f] : CallerWrite(f, v)
    \/ CallerDone

SpecConstructors == InitConstructors /\ [][NextConstructors]_vars

\* The in-memory test handles of one process and the statements through them.
SQLiteConfigs ==
    {c \in ConfigInputs :
        /\ c.DbName = "clinic" /\ ~c.OnGCP
        /\ c.DbPort = NilP /\ c.MaxOpenConns = NilP
        /\ c.MaxIdleConns \in {NilP, OwnP(0)}
        /\ c.ConnMaxLifetimeMins \in {NilP, OwnP(0)}}

InitSQLite ==
    /\ InitMig
    /\ InitCfg
    /\ env = [isSet |-> FALSE, val |-> ""]

NextSQLite ==
    \/ \E c \in SQLiteConfigs : NewSQLiteOrm(c)
    \/ \E ok \in BOOLEAN : GormOpen(ok)
    \/ \E ok \in BOOLEAN : UsePlugin(ok)
    \/ \E ok \in BOOLEAN : GetSqlDB(ok)
    \/ SetMaxIdleConns
    \/ SetMaxOpenConns
    \/ SetConnMaxLifetime
    \/ ReturnOrm
    \/ \E h \in OrmNames : CallerKeeps(h)
    \/ \E h \in OrmNames, r \in Rows : Insert(h, r)
    \/ \E h \in OrmNames : Select(h)
    \/ \E h \in OrmNames : ConnectionExpires(h)

SpecSQLite == InitSQLite /\ [][NextSQLite]_vars

(***************************************************************************)
(* Properties of the migration runner                                      *)
(***************************************************************************)
Last(s) == s[Len(s)]
Front(s) == SubSeq(s, 1, Len(s) - 1)
IsPrefix(s, t) == Len(s) <= Len(t) /\ s = SubSeq(t, 1, Len(s))
Ascending(s) == \A j, k \in 1..Len(s) : j < k => s[j] < s[k]

Returned(ops) == run.pc = "returned" /\ run.op \in ops
Rollbacks == {"Migration.RollbackLastMigration"}

\* The ids of the list ms that d does not record as applied, in the order of the list.
Pending(ms, d) == SelectSeq(IDsOf(ms), LAMBDA id : id \notin Applied(d))

\* The position of the last step of ms that d records as applied; 0 if there is none.
LastAppliedIn(ms, d) ==
    IF \E k \in 1..Len(ms) : ms[k].ID \in Applied(d)
    THEN CHOOSE k \in 1..Len(ms) :
            /\ ms[k].ID \in Applied(d)
            /\ \A j \in (k + 1)..Len(ms) : ms[j].ID \notin Applied(d)
    ELSE 0

\* While a RunMigrations call runs: the forward actions invoked so far are the first
\* pending steps of the list the caller passed, in the order of that list; when a
\* forward action is about to start, its step is not recorded and every step whose
\* forward action ran before it is.
C1_Stepwise ==
    run.op \in RunOps =>
        /\ IsPrefix(run.fwd, Pending(run.input, run.start))
        /\ run.pc = "forward" =>
              /\ Range(run.fwd) \subseteq Applied(Cur)
              /\ run.migrations[run.i].ID \notin Applied(Cur)

\* C1 as amended: a RunMigrations call that returns no error has run the forward
\* action of exactly the steps not recorded as applied when it started, in the order
\* of the supplied list (not sorted by identifier), and has recorded each step before
\* the forward action of the next one started.
C1_AppliesPendingInListOrder ==
    /\ C1_Stepwise
    /\ Returned(RunOps) /\ run.result = Nil =>
          /\ run.fwd = Pending(run.input, run.start)
          /\ db.applied = run.start.applied \o run.fwd

\* C1 as stated: the forward actions run in ascending identifier order.
C1_AppliesPendingInAscendingOrder ==
    /\ C1_Stepwise
    /\ Returned(RunOps) /\ run.result = Nil =>
          /\ Range(run.fwd) = Range(Pending(run.input, run.start))
          /\ Ascending(run.fwd)
          /\ db.applied = run.start.applied \o run.fwd

\* C1's case: a call returned without error after running two forward actions that
\* the list gave in descending identifier order.
C1_Witness ==
    /\ Returned(RunOps)
    /\ run.result = Nil
    /\ Len(run.fwd) >= 2
    /\ ~Ascending(run.fwd)

\* C2: a RunMigrations call that ran without a transaction and in which a forward
\* action failed returns that failure; the failing step is the last one whose
\* forward action was invoked; the steps applied before it stay recorded, and
\* neither the failing step nor a later one is recorded by the call.
C2_FailureHaltsAndKeepsEarlierSteps ==
    Returned(RunOps) /\ ~run.usedTx /\ run.err.e = "Migrate" =>
        /\ run.fwd # <<>>
        /\ run.result = MigrateFailed(Last(run.fwd))
        /\ IsPrefix(run.fwd, Pending(run.input, run.start))
        /\ db.applied = run.start.applied \o Front(run.fwd)
        /\ Last(run.fwd) \notin Applied(db)

\* C2's case: without a transaction, the second pending step failed after the first
\* was applied.
C2_Witness ==
    /\ Returned(RunOps)
    /\ ~run.usedTx
    /\ run.err.e = "Migrate"
    /\ Len(run.fwd) = 2
    /\ Len(run.input) >= 2

\* C3: a RunMigrations call for which transaction wrapping was enabled (an instance
\* made with WithUseTransaction, RunMigrationsInSingleTransaction, or a handle whose
\* configuration has MigrateUseTransaction) and in which a forward action failed
\* leaves the applied-records and the effects as they were before the call.
C3_TransactionIsAllOrNothing ==
    Returned(RunOps) /\ run.requestedTx /\ run.err.e = "Migrate" => db = run.start

\* C3's case: with wrapping enabled, the second pending step failed after the first
\* forward action had succeeded.
C3_Witness ==
    /\ Returned(RunOps)
    /\ run.requestedTx
    /\ run.err.e = "Migrate"
    /\ Len(run.fwd) = 2
    /\ db = run.start

\* C4: a RunMigrations call made right after a RunMigrations call that succeeded with
\* the same list runs no forward action, succeeds and leaves the database unchanged.
C4_ReapplyIsIdempotent ==
    Returned(RunOps) /\ run.repeat =>
        /\ run.fwd = <<>>
        /\ run.result = Nil
        /\ db = run.start

\* C4's case: the repeated list has two steps, both applied by then.
C4_Witness ==
    /\ Returned(RunOps)
    /\ run.repeat
    /\ Len(run.input) >= 2
    /\ Len(run.start.applied) >= 2

\* C5 as stated: RunMigrations with an empty list on a fresh database succeeds,
\* runs no action and records nothing.
C5_EmptyListSucceeds ==
    Returned(RunOps) /\ run.input = <<>> /\ run.start = FreshDb =>
        /\ run.result = Nil
        /\ run.fwd = <<>> /\ run.rev = <<>>
        /\ db = FreshDb

\* C5 as amended: RunMigrations with an empty list on a fresh database runs no action
\* and records nothing, and returns gormigrate's ErrNoMigrationDefined.
C5_EmptyListIsRejected ==
    Returned(RunOps) /\ run.input = <<>> /\ run.start = FreshDb =>
        /\ run.result = ErrNoMigrationDefined
        /\ run.fwd = <<>> /\ run.rev = <<>>
        /\ db = FreshDb

\* C5's case: a RunMigrations call with the empty list returned on a fresh database.
C5_Witness == Returned(RunOps) /\ run.input = <<>> /\ run.start = FreshDb

\* The step applied most recently before the call is in the list ms with a reverse
\* action (every step of ms with its id has one).
MostRecentHasReverse(ms, d) ==
    /\ d.applied # <<>>
    /\ \E k \in 1..Len(ms) : ms[k].ID = Last(d.applied)
    /\ \A k \in 1..Len(ms) : ms[k].ID = Last(d.applied) => ms[k].Rollback

\* The step applied most recently before the call is in the list ms without a
\* reverse action.
MostRecentLacksReverse(ms, d) ==
    /\ d.applied # <<>>
    /\ \E k \in 1..Len(ms) : ms[k].ID = Last(d.applied)
    /\ \A k \in 1..Len(ms) : ms[k].ID = Last(d.applied) => ~ms[k].Rollback

Documented ==
    [DbPort |-> 3306, MaxIdleConns |-> 100, MaxOpenConns |-> 100,
     ConnMaxLifetimeMins |-> 15]

InConstructor == ctor.pc \notin {"idle", "returned"}

\* C8: while a constructor runs on a configuration, each optional field the caller
\* left unset reads as its documented default (3306, 100, 100, 15) and each field the
\* caller set, a zero too, reads as the caller's value.
C8_UnsetFieldsReadAsDocumentedDefaults ==
    InConstructor =>
        \A f \in OptionalFields :
            /\ cfg[f] # NilP
            /\ ctor.input[f] = NilP => Value(cfg[f]) = Documented[f]
            /\ ctor.input[f] # NilP => Value(cfg[f]) = ctor.input[f].val

\* The decimal text of the port numbers that occur.
DecimalText(n) ==
    CASE n = 0 -> "0"
      [] n = 3306 -> "3306"
      [] n = 3307 -> "3307"

\* C9: the descriptor NewMySqlOrm opens is chosen by OnGCP alone: with it,
\* user:password@unix(/socketDir/host)/dbname?charset=utf8mb4&parseTime=true, socketDir
\* being DB_SOCKET_DIR if set and cloudsql otherwise; without it,
\* user:password@tcp(host:port)/dbname?parseTime=true, port being the resolved port.
\* {clinic,u,p,h} gives u:p@tcp(h:3306)/clinic?parseTime=true when the port resolves
\* to 3306, and u:p@unix(/cloudsql/h)/clinic?charset=utf8mb4&parseTime=true when
\* DB_SOCKET_DIR is unset.
C9_DescriptorFollowsMode ==
    ctor.engine = "mysql" =>
        LET c == ctor.input
            dir == IF env.isSet THEN env.val ELSE "cloudsql"
            scenario == c.DbName = "clinic" /\ c.DbUser = "u" /\ c.DbPassword = "p"
                        /\ c.DbHost = "h"
        IN  /\ c.OnGCP =>
                  ctor.dsn = c.DbUser \o ":" \o c.DbPassword \o "@unix(/" \o dir \o "/"
                                \o c.DbHost \o ")/" \o c.DbName
                                \o "?charset=utf8mb4&parseTime=true"
            /\ ~c.OnGCP =>
                  ctor.dsn = c.DbUser \o ":" \o c.DbPassword \o "@tcp(" \o c.DbHost \o ":"
                                \o DecimalText(ctor.resolved.DbPort) \o ")/" \o c.DbName
                                \o "?parseTime=true"
            /\ scenario /\ ~c.OnGCP /\ ctor.resolved.DbPort = 3306 =>
                  ctor.dsn = "u:p@tcp(h:3306)/clinic?parseTime=true"
            /\ scenario /\ c.OnGCP /\ ~env.isSet =>
                  ctor.dsn = "u:p@unix(/cloudsql/h)/clinic?charset=utf8mb4&parseTime=true"

\* C9's case: NewMySqlOrm returned for {clinic,u,p,h} with the mode off and the port
\* unset.
C9_Witness ==
    /\ ctor.engine = "mysql"
    /\ ctor.pc = "returned"
    /\ ~ctor.input.OnGCP
    /\ ctor.input.DbPort = NilP
    /\ ctor.dsn = "u:p@tcp(h:3306)/clinic?parseTime=true"

SetupOrder ==
    <<"open", "plugin", "pool", "SetMaxIdleConns", "SetMaxOpenConns",
      "SetConnMaxLifetime", "return">>

PoolFields == {"MaxIdleConns", "MaxOpenConns", "ConnMaxLifetimeMins"}

\* C10: a constructor opens the engine, installs the plugin, retrieves the pool and
\* sets max idle, max open and max lifetime to the resolved configuration values,
\* and returns the handle, in that order; when opening, installing or retrieving
\* fails it panics with no later step done and no handle returned; a returned handle
\* has the plugin installed and the three limits set.
C10_SetupOrderAndFatalFailures ==
    /\ IsPrefix(ctor.trace, SetupOrder)
    /\ \A f \in ctor.pool.set : ctor.pool[f] = ctor.resolved[f]
    /\ ctor.plugin <=> Len(ctor.trace) >= 2
    /\ ctor.pc = "panicked" =>
          /\ Len(ctor.trace) <= 2
          /\ ctor.pool.set = {}
          /\ ~handle.returned
    /\ handle.returned =>
          /\ ctor.trace = SetupOrder
          /\ handle.plugin
          /\ handle.pool.set = PoolFields
          /\ \A f \in PoolFields : handle.pool[f] = ctor.resolved[f]

\* C10's case: a handle was returned for a configuration with one limit unset and
\* one set by the caller.
C10_Witness ==
    /\ handle.returned
    /\ ctor.input.MaxIdleConns = NilP
    /\ ctor.input.MaxOpenConns # NilP
    /\ handle.pool.MaxIdleConns = 100
    /\ handle.pool.MaxOpenConns = 20

(***************************************************************************)
(* Properties of the process-wide state: gormigrate.DefaultOptions and the *)
(* package variables behind the resolved configurations                    *)
(***************************************************************************)
NilOptionsRun == run.op = "Orm.RunMigrations" /\ run.options = DefaultPtr
ConfigOffRun == run.op = "Orm.RunMigrationsByConfig" /\ ~run.requestedTx

\* C11: the handles NewSQLiteOrm made in one process are backed by one store: a query
\* through a handle returns every row that was inserted before it through another
\* handle, whatever configuration each was made with and in whatever order.
C11_SQLiteHandlesShareOneStore ==
    obs.read =>
        \A r \in Rows :
            obs.inserted[r] \notin {"none", obs.reader} => r \in obs.result

\* C12: transaction mode is isolated between the runs issued through Orm methods: an
\* Orm.RunMigrations call with nil options, or on a handle whose configuration has
\* MigrateUseTransaction false, runs without a transaction whatever ran before it, and
\* no run changes gormigrate.DefaultOptions.
C12_TransactionModeIsIsolated ==
    /\ NilOptionsRun => ~run.usedTx
    /\ ConfigOffRun => ~run.usedTx
    /\ DefaultOptions = Options(FALSE)

\* C13: a Migration made by NewMigration has its own options: made without
\* WithUseTransaction it has transaction wrapping disabled, made with it enabled.
C13_InstanceModeFollowsItsOptions ==
    \A m \in InstNames :
        insts[m].made =>
            (insts[m].options.UseTransaction
                <=> "WithUseTransaction" \in Range(insts[m].with))

\* C14: resolved configurations are independent: whatever the caller wrote through the
\* resolved fields of one configuration, the package defaults are as declared, and a
\* configuration resolved afterwards has the documented default in each field its
\* caller left unset.
C14_ResolvedConfigurationsAreIndependent ==
    /\ \A f \in OptionalFields : defaults[f] = Documented[f]
    /\ writes > 0 /\ InConstructor =>
          \A f \in OptionalFields :
              ctor.input[f] = NilP => ctor.resolved[f] = Documented[f]

====
